---- MODULE Spec2Model ----
(***************************************************************************)
(* Capacity-constrained clustering of jobsites: the three programs of the  *)
(* repository as one state machine.                                        *)
(*   JobsiteSortv3.py            main -> run_for_k -> _rebalance_capacity_ *)
(*                               geo -> _relabel_by_shop -> zone split     *)
(*   jobsite_sort_geocode.py     main -> assign_location_groups ->         *)
(*                               re-index by Dist_km -> zone split         *)
(*   jobsite_sort_geocode(3).py  assign_groups (time-budget packing)       *)
(* A behaviour runs exactly one program; pc names the program and the      *)
(* position in it.                                                         *)
(*                                                                         *)
(* Coordinates are integers in an arbitrary fixed fraction of a degree.    *)
(* Means (centroids, mean distances) are exact fractions [num, den].       *)
(* haversine is modelled on the inputs where it has a closed form: two     *)
(* points on one meridian (distance R*|dlat|) or two points on the equator *)
(* (distance R*|dlon|); every Init below keeps the reference location and  *)
(* every centroid on such a pair.  The factor R*pi/180 is left out of the  *)
(* returned fraction, so distances are in coordinate units.                *)
(* Floating-point rounding is not modelled: arithmetic is exact.           *)
(***************************************************************************)
EXTENDS Integers, Sequences, FiniteSets, TLC

VARIABLES
  pc,             \* program and position
  file,           \* rows of the input spreadsheet with their geocoding result
  caller,         \* who called the grouping function: a program, or "direct"
  df,             \* the working frame: rows [Latitude, Longitude, ok]
  LocationGroup,  \* df["LocationGroup"], one label per row of df (NoGroup = NaN)
  args_k,         \* the group count asked for (args.k, or the UI answer)
  ui,             \* main runs the UI loop (args.k is None)
  k,              \* local k of main / run_for_k
  n_clusters,     \* the n_clusters value handed to KMeans (NoK: not yet)
  MAX_PER_GROUP,  \* JobsiteSortv3.MAX_PER_GROUP (environment)
  passes,         \* iterations of "for _ in range(50)" entered so far
  counts,         \* rebalancer: running counts dict
  counts0,        \* rebalancer: counts as value_counts() returned them
  LocationGroup0, \* rebalancer: the labels when the pass began (history)
  over,           \* rebalancer: over-capacity groups still to process
  under,          \* rebalancer: the pass's list of under-capacity groups
  cents,          \* rebalancer: centroids of the pass, as sums
  g,              \* rebalancer: the over-capacity group being emptied
  shop,           \* result of geocoding SHOP_ADDRESS
  cutoff,         \* zone split: cutoff / inner_cutoff
  df_inner,       \* rows written to the inner file
  df_outer,       \* rows written to the outer file
  ran,            \* the grouping stage was entered for this input
  group_id,       \* assign_groups: next sub-group identifier
  group_labels,   \* assign_groups: identifier per row (NoGroup = None)
  current_sum,    \* assign_groups: running sum of the open sub-group
  loc_group,      \* assign_groups: bucket being packed (NoGroup before the first)
  sorted_jobs,    \* assign_groups: rows of the bucket still to place
  rc              \* process exit status (-1 while running)

vars == <<pc, file, caller, df, LocationGroup, args_k, ui, k, n_clusters,
          MAX_PER_GROUP, passes, counts, counts0, LocationGroup0, over, under, cents, g,
          shop, cutoff, df_inner, df_outer, ran, group_id, group_labels,
          current_sum, loc_group, sorted_jobs, rc>>

\* the locals of assign_groups
pack == <<group_id, group_labels, current_sum, loc_group, sorted_jobs>>

(***************************************************************************)
(* Bounds of the model                                                     *)
(***************************************************************************)
MaxN   == 4      \* rows of an enumerated input file
MaxLat == 2      \* enumerated latitudes are 0..MaxLat
MaxCap == 2      \* enumerated MAX_PER_GROUP values are 1..MaxCap
MaxItems == 3    \* jobs at the enumerated site of a packing input
SiteGap == 10    \* distance between neighbouring job sites

(***************************************************************************)
(* Program constants                                                       *)
(***************************************************************************)
PASS_CAP == 50   \* range(50) in _rebalance_capacity_geo
MIN_K    == 2    \* max(2, k) in main
KMEANS_CLUSTERS       == 35   \* n_clusters=35 / clusters: int = 35
MAX_HOURS_PER_GROUP   == 40   \* 8.0 h, in units of 0.2 h
TRAVEL_BUFFER_PER_JOB == 1    \* 0.20 h, in units of 0.2 h

NoGroup == -1    \* NaN / missing label
NoK     == -1    \* no value yet
NoShop  == [ok |-> FALSE, lat |-> 0, lon |-> 0]

(***************************************************************************)
(* Arithmetic helpers                                                      *)
(***************************************************************************)
Abs(x) == IF x < 0 THEN -x ELSE x
Sq(x)  == x * x
Max2(a, b) == IF a > b THEN a ELSE b
Min2(a, b) == IF a < b THEN a ELSE b

Frac(n, d) == [num |-> n, den |-> d]
FLeq(a, b) == a.num * b.den <= b.num * a.den
FLt(a, b)  == a.num * b.den <  b.num * a.den
FEq(a, b)  == a.num * b.den =  b.num * a.den

RECURSIVE SumOver(_, _)
SumOver(S, f) ==
  IF S = {} THEN 0
  ELSE LET i == CHOOSE j \in S : TRUE IN f[i] + SumOver(S \ {i}, f)

Row(lat, lon) == [Latitude |-> lat, Longitude |-> lon, ok |-> TRUE]
NoCoord       == [Latitude |-> 0, Longitude |-> 0, ok |-> FALSE]

\* df.dropna(subset=["Latitude","Longitude"]).reset_index(drop=True)
dropna(frame) == SelectSeq(frame, LAMBDA r : r.ok)

Lats(frame) == [i \in DOMAIN frame |-> frame[i].Latitude]
Lons(frame) == [i \in DOMAIN frame |-> frame[i].Longitude]

Members(lg, grp) == {i \in DOMAIN lg : lg[i] = grp}
GroupIds(lg)     == {lg[i] : i \in DOMAIN lg} \ {NoGroup}

\* df["LocationGroup"].value_counts().to_dict()
value_counts(lg) == [grp \in GroupIds(lg) |-> Cardinality(Members(lg, grp))]

\* frame.groupby("LocationGroup")[["Latitude","Longitude"]].mean(); the mean
\* of group grp is (lat / n, lon / n)
_centroids(frame, lg) ==
  [grp \in GroupIds(lg) |->
     [lat |-> SumOver(Members(lg, grp), Lats(frame)),
      lon |-> SumOver(Members(lg, grp), Lons(frame)),
      n   |-> Cardinality(Members(lg, grp))]]

\* (lat - latc)**2 + (lon - lonc)**2 for row i and centroid c, times c.n**2
D2Num(frame, i, c) ==
  Sq(c.n * frame[i].Latitude - c.lat) + Sq(c.n * frame[i].Longitude - c.lon)

D2(frame, i, c) == Frac(D2Num(frame, i, c), Sq(c.n))

\* haversine(lat1, lon1, lat2, lon2) for fractions, on its closed-form inputs
haversine(lat1, lon1, lat2, lon2) ==
  IF FEq(lon1, lon2)
  THEN Frac(Abs(lat1.num * lat2.den - lat2.num * lat1.den), lat1.den * lat2.den)
  ELSE Frac(Abs(lon1.num * lon2.den - lon2.num * lon1.den), lon1.den * lon2.den)

(***************************************************************************)
(* JobsiteSortv3.py: main and run_for_k up to the clustering               *)
(***************************************************************************)
\* the enumerated input files: up to MaxN rows, each geocoded to a latitude
\* 0..MaxLat on the meridian of the shop, or not geocoded (symbol MaxLat+1).
\* Rows are listed in non-decreasing order: the order of the rows only
\* decides ties, which the model resolves nondeterministically.
SmallFiles ==
  UNION {{[i \in 1..n |-> IF s[i] > MaxLat THEN NoCoord ELSE Row(s[i], 0)] :
            s \in {t \in [1..n -> 0..(MaxLat + 1)] :
                     \A i \in 1..(n - 1) : t[i] <= t[i + 1]}} : n \in 0..MaxN}

\* values typed for --k or into the dialog
ArgKs == 0..(MaxN + 1)

V3MainCli ==
  /\ pc = "v3_main"
  /\ \E a \in ArgKs :
       /\ args_k' = a
       /\ k' = Max2(MIN_K, a)
  /\ ui' = FALSE
  /\ pc' = "v3_run_for_k"
  /\ UNCHANGED <<pack, file, caller, df, LocationGroup, n_clusters, MAX_PER_GROUP, passes,
                 counts, counts0, LocationGroup0, over, under, cents, g, shop, cutoff,
                 df_inner, df_outer, ran, rc>>

\* main without --k: job_count bounds the dialog
job_count == IF Len(file) < 1 THEN 1 ELSE Len(file)

V3MainUi ==
  /\ pc = "v3_main"
  /\ ui' = TRUE
  /\ pc' = "v3_pick_k"
  /\ UNCHANGED <<pack, file, caller, df, LocationGroup, args_k, k, n_clusters, MAX_PER_GROUP,
                 passes, counts, counts0, LocationGroup0, over, under, cents, g, shop, cutoff,
                 df_inner, df_outer, ran, rc>>

\* _pick_k_interactive returns an integer in low..high = 1..job_count
\* (the dialog refuses anything else, the console clamps), then k = max(2, k)
_pick_k_interactive ==
  /\ pc = "v3_pick_k"
  /\ \E a \in 1..job_count :
       /\ args_k' = a
       /\ k' = Max2(MIN_K, a)
  /\ pc' = "v3_run_for_k"
  /\ df' = file
  /\ LocationGroup' = <<>>
  /\ n_clusters' = NoK
  /\ passes' = 0
  /\ shop' = NoShop
  /\ cutoff' = NoK
  /\ df_inner' = {}
  /\ df_outer' = {}
  /\ UNCHANGED <<pack, file, caller, ui, MAX_PER_GROUP, counts, counts0, LocationGroup0, over, under, cents,
                 g, ran, rc>>

\* _pick_k_interactive returns None: "Cancelled. Exiting.", return 0
V3Cancel ==
  /\ pc = "v3_pick_k"
  /\ pc' = "exit"
  /\ rc' = 0
  /\ UNCHANGED <<pack, file, caller, df, LocationGroup, args_k, ui, k, n_clusters,
                 MAX_PER_GROUP, passes, counts, counts0, LocationGroup0, over, under, cents, g,
                 shop, cutoff, df_inner, df_outer, ran>>

\* run_for_k, lines 262-265: no row has coordinates
V3RunEmpty ==
  /\ pc = "v3_run_for_k"
  /\ dropna(file) = <<>>
  /\ df' = dropna(file)
  /\ ran' = TRUE
  /\ pc' = IF ui THEN "v3_pick_k" ELSE "exit"
  /\ rc' = IF ui THEN rc ELSE 0
  /\ UNCHANGED <<pack, file, caller, LocationGroup, args_k, ui, k, n_clusters, MAX_PER_GROUP,
                 passes, counts, counts0, LocationGroup0, over, under, cents, g, shop, cutoff,
                 df_inner, df_outer>>

\* KMeans(n_clusters=k).fit_predict on n rows: labels 0..k-1, every cluster
\* non-empty (1 <= k <= n).  Any such labelling may come back.
KMeansLabels(n, kk) ==
  {lg \in [1..n -> 0..(kk - 1)] : \A c \in 0..(kk - 1) : \E i \in 1..n : lg[i] = c}

\* run_for_k, lines 262-272: drop, clamp, cluster
V3RunCluster ==
  /\ pc = "v3_run_for_k"
  /\ dropna(file) # <<>>
  /\ df' = dropna(file)
  /\ ran' = TRUE
  /\ LET n_jobs == Len(dropna(file))
         kk     == Max2(1, Min2(k, n_jobs))
     IN  /\ k' = kk
         /\ n_clusters' = kk
         /\ \E lg \in KMeansLabels(n_jobs, kk) : LocationGroup' = lg
  /\ pc' = "reb_pass"
  /\ UNCHANGED <<pack, file, caller, args_k, ui, MAX_PER_GROUP, passes, counts, counts0, LocationGroup0,
                 over, under, cents, g, shop, cutoff, df_inner, df_outer, rc>>

(***************************************************************************)
(* JobsiteSortv3.py: _rebalance_capacity_geo                               *)
(***************************************************************************)
\* over=[g for g,c in counts.items() if c>max_per_group]
OverGroups(cnt, max_per_group) ==
  {grp \in DOMAIN cnt : cnt[grp] > max_per_group}

\* under=[g for g,c in counts.items() if c<max_per_group]
UnderGroups(cnt, max_per_group) ==
  {grp \in DOMAIN cnt : cnt[grp] < max_per_group}

\* the break on an empty over list left out
NoOverBreak_never(ov) == FALSE

\* if not over: break
NoOverBreak(ov) == ov = {}

\* the break on an empty under list left out
NoUnderBreak_never(und) == FALSE

\* if not under: break
NoUnderBreak(und) == und = {}

\* the moved row loses its label instead of getting h
MoveRow_lost(lg, idx, h) == [lg EXCEPT ![idx] = NoGroup]

\* df.at[idx,"LocationGroup"]=h
MoveRow(lg, idx, h) == [lg EXCEPT ![idx] = h]

\* if counts[g]<=max_per_group: break
StopEvicting(c, max_per_group) == c <= max_per_group

\* the sort ascending: a member nearest to the centroid goes first
EvictCandidates_nearest(frame, lg, grp, cs) ==
  {i \in Members(lg, grp) :
     /\ \A j \in Members(lg, grp) : D2Num(frame, i, cs[grp]) <= D2Num(frame, j, cs[grp])
     /\ \A j \in Members(lg, grp) : (frame[j] = frame[i]) => i <= j}

\* the head of d2.sort_values(ascending=False).index among the rows still in
\* grp: a member farthest from the pass's centroid of grp.  Equal distances
\* may come in either order.  Rows of grp with identical coordinates are
\* interchangeable, so the lowest index stands for all of them.
EvictCandidates(frame, lg, grp, cs) ==
  {i \in Members(lg, grp) :
     /\ \A j \in Members(lg, grp) : D2Num(frame, j, cs[grp]) <= D2Num(frame, i, cs[grp])
     /\ \A j \in Members(lg, grp) : (frame[j] = frame[i]) => i <= j}

\* min(under, key=squared distance to the centroid): the first minimal entry
\* of the list.  value_counts() lists groups by descending count, so among
\* equally near groups one with the largest pass-start count is taken; the
\* order of groups with equal counts is not fixed.
NearestUnder(frame, i, und, cs, cnt0) ==
  LET near == {u \in und : \A v \in und : FLeq(D2(frame, i, cs[u]), D2(frame, i, cs[v]))}
  IN  {u \in near : \A v \in near : cnt0[v] <= cnt0[u]}

RebLocals == <<counts, counts0, LocationGroup0, over, under, cents, g>>

\* return df: the locals die with the call
RebReturn ==
  /\ pc' = IF caller = "run_for_k" THEN "v3_relabel" ELSE "returned"
  /\ counts' = <<>> /\ counts0' = <<>> /\ LocationGroup0' = <<>> /\ cents' = <<>>
  /\ over' = {} /\ under' = {} /\ g' = NoGroup
  /\ UNCHANGED <<pack, file, caller, df, LocationGroup, args_k, ui, k, n_clusters,
                 MAX_PER_GROUP, shop, cutoff, df_inner, df_outer, ran, rc>>

\* range(50) is exhausted
RebPassCap ==
  /\ pc = "reb_pass"
  /\ passes >= PASS_CAP
  /\ passes' = passes
  /\ RebReturn

\* if not over: break
RebNoOver ==
  /\ pc = "reb_pass"
  /\ passes < PASS_CAP
  /\ NoOverBreak(OverGroups(value_counts(LocationGroup), MAX_PER_GROUP))
  /\ passes' = passes + 1
  /\ RebReturn

\* if not under: break
RebNoUnder ==
  /\ pc = "reb_pass"
  /\ passes < PASS_CAP
  /\ ~NoOverBreak(OverGroups(value_counts(LocationGroup), MAX_PER_GROUP))
  /\ NoUnderBreak(UnderGroups(value_counts(LocationGroup), MAX_PER_GROUP))
  /\ passes' = passes + 1
  /\ RebReturn

\* lines 120-125 of a pass that goes on to move rows
RebPassBegin ==
  /\ pc = "reb_pass"
  /\ passes < PASS_CAP
  /\ ~NoOverBreak(OverGroups(value_counts(LocationGroup), MAX_PER_GROUP))
  /\ ~NoUnderBreak(UnderGroups(value_counts(LocationGroup), MAX_PER_GROUP))
  /\ passes' = passes + 1
  /\ counts' = value_counts(LocationGroup)
  /\ counts0' = value_counts(LocationGroup)
  /\ LocationGroup0' = LocationGroup
  /\ over' = OverGroups(value_counts(LocationGroup), MAX_PER_GROUP)
  /\ cents' = _centroids(df, LocationGroup)
  /\ under' = UnderGroups(value_counts(LocationGroup), MAX_PER_GROUP)
  /\ g' = NoGroup
  /\ pc' = "reb_group"
  /\ UNCHANGED <<pack, file, caller, df, LocationGroup, args_k, ui, k, n_clusters,
                 MAX_PER_GROUP, shop, cutoff, df_inner, df_outer, ran, rc>>

\* for g in over: the next group, in value_counts() order
RebNextGroup ==
  /\ pc = "reb_group"
  /\ over # {}
  /\ \E grp \in {a \in over : \A b \in over : counts0[b] <= counts0[a]} :
       /\ g' = grp
       /\ over' = over \ {grp}
  /\ pc' = "reb_evict"
  /\ UNCHANGED <<pack, file, caller, df, LocationGroup, args_k, ui, k, n_clusters,
                 MAX_PER_GROUP, passes, counts, counts0, LocationGroup0, under, cents, shop,
                 cutoff, df_inner, df_outer, ran, rc>>

\* lines 131-135: move one row of g.  min() of an empty list raises ValueError.
RebEvict ==
  /\ pc = "reb_evict"
  /\ \E idx \in EvictCandidates(df, LocationGroup, g, cents) :
       IF under = {}
       THEN /\ pc' = "reb_raised" /\ rc' = 1
            /\ UNCHANGED <<LocationGroup, counts>>
       ELSE \E h \in NearestUnder(df, idx, under, cents, counts0) :
            /\ LocationGroup' = MoveRow(LocationGroup, idx, h)
            /\ counts' = [counts EXCEPT ![g] = @ - 1, ![h] = @ + 1]
            /\ pc' = IF StopEvicting(counts[g] - 1, MAX_PER_GROUP)
                     THEN "reb_group" ELSE "reb_evict"
            /\ rc' = rc
  /\ UNCHANGED <<pack, file, caller, df, args_k, ui, k, n_clusters, MAX_PER_GROUP, passes,
                 counts0, LocationGroup0, over, under, cents, g, shop, cutoff, df_inner,
                 df_outer, ran>>

\* every over-capacity group of the pass was handled: next iteration
RebPassEnd ==
  /\ pc = "reb_group"
  /\ over = {}
  /\ pc' = "reb_pass"
  /\ counts' = <<>> /\ counts0' = <<>> /\ LocationGroup0' = <<>> /\ cents' = <<>>
  /\ under' = {} /\ g' = NoGroup
  /\ UNCHANGED <<pack, file, caller, df, LocationGroup, args_k, ui, k, n_clusters,
                 MAX_PER_GROUP, passes, over, shop, cutoff, df_inner, df_outer,
                 ran, rc>>

(***************************************************************************)
(* JobsiteSortv3.py: _relabel_by_shop and the zone split of run_for_k      *)
(***************************************************************************)
\* cents["Dist"]: haversine(centroid, shop) per group
CentroidDist(frame, lg, s) ==
  [grp \in GroupIds(lg) |->
     LET c == _centroids(frame, lg)[grp]
     IN  haversine(Frac(c.lat, c.n), Frac(c.lon, c.n), Frac(s.lat, 1), Frac(s.lon, 1))]

\* the head of a frame sorted ascending by dist: a group with the least value
SortHead(S, dist) == {a \in S : \A b \in S : FLeq(dist[a], dist[b])}

\* sort_values(...).reset_index(drop=True): the orders a sort by dist may
\* give, as sequences of group ids; equal values may come in either order
RECURSIVE SortedOrders(_, _)
SortedOrders(S, dist) ==
  IF S = {} THEN {<<>>}
  ELSE UNION {{<<a>> \o s : s \in SortedOrders(S \ {a}, dist)} : a \in SortHead(S, dist)}

\* ranks counted from 1
RankMap_from_one(order) ==
  [grp \in {order[i] : i \in DOMAIN order} |->
     CHOOSE i \in DOMAIN order : order[i] = grp]

\* mapping={row["LocationGroup"]:i for i,row in cents.iterrows()}, 0-based
RankMap(order) ==
  [grp \in {order[i] : i \in DOMAIN order} |->
     (CHOOSE i \in DOMAIN order : order[i] = grp) - 1]

\* df["LocationGroup"].map(mapping)
MapLabels(lg, mapping) ==
  [i \in DOMAIN lg |-> IF lg[i] \in DOMAIN mapping THEN mapping[lg[i]] ELSE NoGroup]

\* latitudes SHOP_ADDRESS may geocode to (same meridian as the jobs)
ShopLats == {0, MaxLat}

\* what geocode_address(SHOP_ADDRESS) may give: no coordinate, or a shop
Shops == {NoShop} \cup {[ok |-> TRUE, lat |-> sl, lon |-> 0] : sl \in ShopLats}

\* the test for a missing shop left out
ShopMissing_never(s) == FALSE

\* if shop_lat is None
ShopMissing(s) == ~s.ok

\* lines 275-276; geocoding the shop may fail: if shop_lat is None: return df
_relabel_by_shop ==
  /\ pc = "v3_relabel"
  /\ \E s \in Shops :
       /\ shop' = s
       /\ IF ShopMissing(s)
          THEN LocationGroup' = LocationGroup
          ELSE \E order \in SortedOrders(GroupIds(LocationGroup),
                                         CentroidDist(df, LocationGroup, s)) :
                 LocationGroup' = MapLabels(LocationGroup, RankMap(order))
  /\ pc' = "v3_zone"
  /\ UNCHANGED <<pack, file, caller, df, args_k, ui, k, n_clusters, MAX_PER_GROUP, passes,
                 counts, counts0, LocationGroup0, over, under, cents, g, cutoff, df_inner,
                 df_outer, ran, rc>>

\* cutoff = (k_actual + 1) // 2
V3Cutoff(k_actual) == (k_actual + 1) \div 2

\* lines 278-287, then the call returns to main
V3ZoneSplit ==
  /\ pc = "v3_zone"
  /\ LET k_actual == Cardinality(GroupIds(LocationGroup))
         c        == V3Cutoff(k_actual)
     IN  /\ cutoff' = c
         /\ df_inner' = {i \in DOMAIN df : LocationGroup[i] \in 0..(c - 1)}
         /\ df_outer' = {i \in DOMAIN df : LocationGroup[i] \in c..(k_actual - 1)}
  /\ pc' = "v3_written"
  /\ UNCHANGED <<pack, file, caller, df, LocationGroup, args_k, ui, k, n_clusters,
                 MAX_PER_GROUP, passes, counts, counts0, LocationGroup0, over, under, cents, g,
                 shop, ran, rc>>

\* run_for_k returned: main returns 0, or asks for the next K
V3Return ==
  /\ pc = "v3_written"
  /\ pc' = IF ui THEN "v3_pick_k" ELSE "exit"
  /\ rc' = IF ui THEN rc ELSE 0
  /\ UNCHANGED <<pack, file, caller, df, LocationGroup, args_k, ui, k, n_clusters,
                 MAX_PER_GROUP, passes, counts, counts0, LocationGroup0, over, under, cents, g,
                 shop, cutoff, df_inner, df_outer, ran>>

(***************************************************************************)
(* The 35-cluster programs: clustering                                     *)
(***************************************************************************)
\* KMeans(n_clusters=35, random_state=42).fit(coords).labels_ for a file whose
\* geocoded rows lie in exactly 35 separated job sites (row.site, 0..34):
\* the clusters are the sites, under some numbering.  Two numberings are
\* modelled.  Fewer samples than clusters make fit raise ValueError.
SitePerms ==
  {[st \in 0..(KMEANS_CLUSTERS - 1) |-> st],
   [st \in 0..(KMEANS_CLUSTERS - 1) |-> KMEANS_CLUSTERS - 1 - st]}

KMeansBySite(frame, perm) ==
  [i \in DOMAIN frame |-> IF frame[i].ok THEN perm[frame[i].site] ELSE NoGroup]

\* every row is at least as near to its own cluster's mean as to any other
LloydStable(frame, lg) ==
  LET cs == _centroids(frame, lg) IN
  \A i \in DOMAIN frame : lg[i] # NoGroup =>
    \A grp \in DOMAIN cs : FLeq(D2(frame, i, cs[lg[i]]), D2(frame, i, cs[grp]))

(***************************************************************************)
(* jobsite_sort_geocode(3).py: assign_groups                               *)
(* Hours are counted in units of 0.2 h.                                    *)
(***************************************************************************)
\* buffer = TRAVEL_BUFFER_PER_JOB if current_sum > 0 else 0
BufferFor(cs) == IF cs > 0 THEN TRAVEL_BUFFER_PER_JOB ELSE 0

\* if current_sum + job_time + buffer > MAX_HOURS_PER_GROUP
Overflows(cs, job_time, buffer) == cs + job_time + buffer > MAX_HOURS_PER_GROUP

\* the job's own time left out of the running sum
AfterPlace_no_time(cs, job_time, buffer) == cs + buffer

\* current_sum += job_time + buffer
AfterPlace(cs, job_time, buffer) == cs + job_time + buffer

\* sort_values(by=["Time to Complete","Difficulty"], ascending=[False,False]):
\* a stable sort, so equal keys keep the order of the frame
JobBefore(frame, i, j) ==
  \/ frame[i].Time > frame[j].Time
  \/ frame[i].Time = frame[j].Time /\ frame[i].Difficulty > frame[j].Difficulty
  \/ frame[i].Time = frame[j].Time /\ frame[i].Difficulty = frame[j].Difficulty /\ i < j

RECURSIVE SortJobs(_, _)
SortJobs(frame, S) ==
  IF S = {} THEN <<>>
  ELSE LET i == CHOOSE a \in S : \A b \in S \ {a} : JobBefore(frame, a, b)
       IN  <<i>> \o SortJobs(frame, S \ {i})

\* lines 129-131 when fit raises: fewer than 35 rows have coordinates
PkClusterRaise ==
  /\ pc = "pk_assign_groups"
  /\ Len(dropna(df)) < KMEANS_CLUSTERS
  /\ ran' = TRUE
  /\ args_k' = KMEANS_CLUSTERS
  /\ n_clusters' = KMEANS_CLUSTERS
  /\ pc' = "exit"
  /\ rc' = 1
  /\ UNCHANGED <<pack, file, caller, df, LocationGroup, ui, k, MAX_PER_GROUP,
                 passes, counts, counts0, LocationGroup0, over, under, cents, g, shop, cutoff,
                 df_inner, df_outer>>

\* lines 129-135
PkCluster ==
  /\ pc = "pk_assign_groups"
  /\ Len(dropna(df)) >= KMEANS_CLUSTERS
  /\ ran' = TRUE
  /\ args_k' = KMEANS_CLUSTERS
  /\ n_clusters' = KMEANS_CLUSTERS
  /\ \E perm \in SitePerms : LocationGroup' = KMeansBySite(df, perm)
  /\ group_id' = 1
  /\ group_labels' = [i \in DOMAIN df |-> NoGroup]
  /\ pc' = "pk_bucket"
  /\ UNCHANGED <<current_sum, loc_group, sorted_jobs, file, caller, df, ui, k,
                 MAX_PER_GROUP, passes, counts, counts0, LocationGroup0, over, under, cents, g,
                 shop, cutoff, df_inner, df_outer, rc>>

\* the buckets groupby("LocationGroup") has not yielded yet (ascending labels)
BucketsLeft == {b \in GroupIds(LocationGroup) : b > loc_group}

\* lines 137-140: the next bucket
PkBucket ==
  /\ pc = "pk_bucket"
  /\ BucketsLeft # {}
  /\ LET b == CHOOSE x \in BucketsLeft : \A y \in BucketsLeft : x <= y
     IN  /\ loc_group' = b
         /\ sorted_jobs' = SortJobs(df, Members(LocationGroup, b))
  /\ current_sum' = 0
  /\ pc' = "pk_item"
  /\ UNCHANGED <<group_id, group_labels, file, caller, df, LocationGroup,
                 args_k, ui, k, n_clusters, MAX_PER_GROUP, passes, counts,
                 counts0, LocationGroup0, over, under, cents, g, shop, cutoff, df_inner,
                 df_outer, ran, rc>>

\* lines 142-150: place one job
PkItem ==
  /\ pc = "pk_item"
  /\ sorted_jobs # <<>>
  /\ LET idx      == Head(sorted_jobs)
         job_time == df[idx].Time
         buffer   == BufferFor(current_sum)
     IN  IF Overflows(current_sum, job_time, buffer)
         THEN /\ group_id' = group_id + 1
              /\ group_labels' = [group_labels EXCEPT ![idx] = group_id + 1]
              /\ current_sum' = AfterPlace(0, job_time, 0)
         ELSE /\ group_id' = group_id
              /\ group_labels' = [group_labels EXCEPT ![idx] = group_id]
              /\ current_sum' = AfterPlace(current_sum, job_time, buffer)
  /\ sorted_jobs' = Tail(sorted_jobs)
  /\ UNCHANGED <<pc, loc_group, file, caller, df, LocationGroup, args_k, ui, k,
                 n_clusters, MAX_PER_GROUP, passes, counts, counts0, LocationGroup0, over,
                 under, cents, g, shop, cutoff, df_inner, df_outer, ran, rc>>

\* line 152: group_id += 1 after the bucket
PkBucketEnd ==
  /\ pc = "pk_item"
  /\ sorted_jobs = <<>>
  /\ group_id' = group_id + 1
  /\ pc' = "pk_bucket"
  /\ UNCHANGED <<group_labels, current_sum, loc_group, sorted_jobs, file,
                 caller, df, LocationGroup, args_k, ui, k, n_clusters,
                 MAX_PER_GROUP, passes, counts, counts0, LocationGroup0, over, under, cents, g,
                 shop, cutoff, df_inner, df_outer, ran, rc>>

\* lines 154-155, then main exports and ends
PkFinish ==
  /\ pc = "pk_bucket"
  /\ BucketsLeft = {}
  /\ pc' = "exit"
  /\ rc' = 0
  /\ UNCHANGED <<pack, file, caller, df, LocationGroup, args_k, ui, k,
                 n_clusters, MAX_PER_GROUP, passes, counts, counts0, LocationGroup0, over,
                 under, cents, g, shop, cutoff, df_inner, df_outer, ran>>

(***************************************************************************)
(* jobsite_sort_geocode.py: main                                           *)
(***************************************************************************)
\* line 169: Dist_km of row i
Dist_km(frame, s, i) ==
  haversine(Frac(s.lat, 1), Frac(s.lon, 1),
            Frac(frame[i].Latitude, 1), Frac(frame[i].Longitude, 1))

\* df.groupby("LocationGroup")["Dist_km"].mean()
MeanDist(frame, lg, s) ==
  [grp \in GroupIds(lg) |->
     Frac(SumOver(Members(lg, grp), [i \in DOMAIN frame |-> Dist_km(frame, s, i).num]),
          Cardinality(Members(lg, grp)))]

\* inner_cutoff = int(len(centroid_dist) / 2)
GeoCutoff(n) == n \div 2

\* lines 164-166: the shop does not geocode
GeoShopRaise ==
  /\ pc = "geo_main"
  /\ pc' = "exit"
  /\ rc' = 1
  /\ UNCHANGED <<pack, file, caller, df, LocationGroup, args_k, ui, k,
                 n_clusters, MAX_PER_GROUP, passes, counts, counts0, LocationGroup0, over,
                 under, cents, g, shop, cutoff, df_inner, df_outer, ran>>

\* lines 164-169: the shop geocodes (to the origin of the model's axes)
GeoShop ==
  /\ pc = "geo_main"
  /\ shop' = [ok |-> TRUE, lat |-> 0, lon |-> 0]
  /\ pc' = "geo_assign"
  /\ UNCHANGED <<pack, file, caller, df, LocationGroup, args_k, ui, k,
                 n_clusters, MAX_PER_GROUP, passes, counts, counts0, LocationGroup0, over,
                 under, cents, g, cutoff, df_inner, df_outer, ran, rc>>

\* assign_location_groups: raise ValueError("No coordinates available; ...")
GeoAssignEmpty ==
  /\ pc = "geo_assign"
  /\ dropna(df) = <<>>
  /\ ran' = TRUE
  /\ args_k' = KMEANS_CLUSTERS
  /\ pc' = "exit"
  /\ rc' = 1
  /\ UNCHANGED <<pack, file, caller, df, LocationGroup, ui, k, n_clusters,
                 MAX_PER_GROUP, passes, counts, counts0, LocationGroup0, over, under, cents, g,
                 shop, cutoff, df_inner, df_outer>>

\* assign_location_groups: fit raises, fewer than 35 rows have coordinates
GeoAssignRaise ==
  /\ pc = "geo_assign"
  /\ dropna(df) # <<>>
  /\ Len(dropna(df)) < KMEANS_CLUSTERS
  /\ ran' = TRUE
  /\ args_k' = KMEANS_CLUSTERS
  /\ n_clusters' = KMEANS_CLUSTERS
  /\ pc' = "exit"
  /\ rc' = 1
  /\ UNCHANGED <<pack, file, caller, df, LocationGroup, ui, k, MAX_PER_GROUP,
                 passes, counts, counts0, LocationGroup0, over, under, cents, g, shop, cutoff,
                 df_inner, df_outer>>

\* assign_location_groups, lines 125-131
assign_location_groups ==
  /\ pc = "geo_assign"
  /\ Len(dropna(df)) >= KMEANS_CLUSTERS
  /\ ran' = TRUE
  /\ args_k' = KMEANS_CLUSTERS
  /\ n_clusters' = KMEANS_CLUSTERS
  /\ \E perm \in SitePerms : LocationGroup' = KMeansBySite(df, perm)
  /\ pc' = "geo_reindex"
  /\ UNCHANGED <<pack, file, caller, df, ui, k, MAX_PER_GROUP, passes, counts,
                 counts0, LocationGroup0, over, under, cents, g, shop, cutoff, df_inner,
                 df_outer, rc>>

\* lines 175-182: rank the clusters by their mean Dist_km
GeoReindex ==
  /\ pc = "geo_reindex"
  /\ \E order \in SortedOrders(GroupIds(LocationGroup), MeanDist(df, LocationGroup, shop)) :
       LocationGroup' = MapLabels(LocationGroup, RankMap(order))
  /\ pc' = "geo_zone"
  /\ UNCHANGED <<pack, file, caller, df, args_k, ui, k, n_clusters,
                 MAX_PER_GROUP, passes, counts, counts0, LocationGroup0, over, under, cents, g,
                 shop, cutoff, df_inner, df_outer, ran, rc>>

\* lines 183-193: the zones, the two files, and the end of main
GeoZone ==
  /\ pc = "geo_zone"
  /\ LET n == Cardinality(GroupIds(LocationGroup))
         c == GeoCutoff(n)
     IN  /\ cutoff' = c
         /\ \E order \in SortedOrders(GroupIds(LocationGroup), MeanDist(df, LocationGroup, shop)) :
              LET inner_groups == {order[i] : i \in 1..c} IN
              /\ df_inner' = {i \in DOMAIN df : LocationGroup[i] \in inner_groups}
              /\ df_outer' = {i \in DOMAIN df : LocationGroup[i] \notin inner_groups}
  /\ pc' = "exit"
  /\ rc' = 0
  /\ UNCHANGED <<pack, file, caller, df, LocationGroup, args_k, ui, k,
                 n_clusters, MAX_PER_GROUP, passes, counts, counts0, LocationGroup0, over,
                 under, cents, g, shop, ran>>

(***************************************************************************)
(* Inputs                                                                  *)
(***************************************************************************)
\* pass-cap scenario: ChainK - 1 single jobs at latitudes 1..ChainK-1 and
\* ChainK + 1 jobs at one address at latitude 0, clustered one group per
\* address (the zero-inertia clustering), capacity 2.  ChainK * 2 = number of
\* jobs, so capacity 2 is feasible.
ChainK == PASS_CAP + 2
ChainN == 2 * ChainK

ChainDf == [i \in 1..ChainN |-> IF i <= ChainK + 1 THEN Row(0, 0) ELSE Row(i - ChainK - 1, 0)]
ChainLabels == [i \in 1..ChainN |-> IF i <= ChainK + 1 THEN 0 ELSE i - ChainK - 1]

InitLocals ==
  /\ LocationGroup = <<>>
  /\ args_k = NoK /\ k = NoK /\ n_clusters = NoK /\ ui = FALSE
  /\ passes = 0
  /\ counts = <<>> /\ counts0 = <<>> /\ LocationGroup0 = <<>> /\ cents = <<>>
  /\ over = {} /\ under = {} /\ g = NoGroup
  /\ shop = NoShop /\ cutoff = NoK
  /\ df_inner = {} /\ df_outer = {}
  /\ ran = FALSE /\ rc = -1
  /\ group_id = NoK /\ group_labels = <<>> /\ current_sum = 0
  /\ loc_group = NoGroup /\ sorted_jobs = <<>>

\* JobsiteSortv3.py started on an enumerated file
InitV3 ==
  /\ pc = "v3_main"
  /\ caller = "run_for_k"
  /\ file \in SmallFiles
  /\ df = file
  /\ MAX_PER_GROUP \in 1..MaxCap
  /\ InitLocals

\* _rebalance_capacity_geo(df, 2) called on the pass-cap scenario
InitChain ==
  /\ pc = "reb_pass"
  /\ caller = "direct"
  /\ file = ChainDf
  /\ df = ChainDf
  /\ MAX_PER_GROUP = 2
  /\ LocationGroup = ChainLabels
  /\ args_k = NoK /\ k = NoK /\ n_clusters = NoK /\ ui = FALSE
  /\ passes = 0
  /\ counts = <<>> /\ counts0 = <<>> /\ LocationGroup0 = <<>> /\ cents = <<>>
  /\ over = {} /\ under = {} /\ g = NoGroup
  /\ shop = NoShop /\ cutoff = NoK
  /\ df_inner = {} /\ df_outer = {}
  /\ ran = FALSE /\ rc = -1
  /\ group_id = NoK /\ group_labels = <<>> /\ current_sum = 0
  /\ loc_group = NoGroup /\ sorted_jobs = <<>>

\* a row of the 35-cluster programs' spreadsheet.  site is the job site of
\* the address, the cluster KMeans puts the row in.
JobRow(lat, lon, st, time) ==
  [Latitude |-> lat, Longitude |-> lon, ok |-> TRUE, site |-> st,
   Time |-> time, Difficulty |-> 1 + (time % 2)]
NoCoordJob(time) ==
  [Latitude |-> 0, Longitude |-> 0, ok |-> FALSE, site |-> NoGroup,
   Time |-> time, Difficulty |-> 1]

\* with or without one row that did not geocode
Ungeocoded == {<<>>, <<NoCoordJob(1)>>}

\* enumerated durations: around half the budget, the budget, and beyond it
Durations ==
  {0, MAX_HOURS_PER_GROUP \div 2 - 1, MAX_HOURS_PER_GROUP \div 2,
   MAX_HOURS_PER_GROUP, MAX_HOURS_PER_GROUP + 1}

\* the jobs of one site, by duration; the order of equal rows is immaterial
SiteJobs(st, lat, maxlen) ==
  UNION {{[i \in 1..n |-> JobRow(lat, 0, st, t[i])] :
            t \in {u \in [1..n -> Durations] : \A i \in 1..(n - 1) : u[i] <= u[i + 1]}} :
         n \in 1..maxlen}

\* one job of half a day at each of the sites from..KMEANS_CLUSTERS-1, on the
\* meridian, SiteGap apart
RECURSIVE Fillers(_)
Fillers(from) ==
  IF from >= KMEANS_CLUSTERS THEN <<>>
  ELSE <<JobRow(SiteGap * from, 0, from, MAX_HOURS_PER_GROUP \div 2)>> \o Fillers(from + 1)

PackFiles ==
  {a \o b \o Fillers(2) \o u :
     a \in SiteJobs(0, 0, MaxItems),
     b \in {<<JobRow(SiteGap, 0, 1, MAX_HOURS_PER_GROUP + 1)>>,
            <<JobRow(SiteGap, 0, 1, MAX_HOURS_PER_GROUP \div 2)>>,
            <<JobRow(SiteGap, 0, 1, 0), JobRow(SiteGap, 0, 1, 0)>>},
     u \in Ungeocoded}

\* zero-duration scenario: so many jobs of duration 0 at site 0 that their
\* travel buffers alone exceed the budget
ZeroRun == MAX_HOURS_PER_GROUP \div TRAVEL_BUFFER_PER_JOB + 2
ZeroFile == [i \in 1..ZeroRun |-> JobRow(0, 0, 0, 0)] \o Fillers(1)

\* jobsite_sort_geocode(3).py started on a spreadsheet
InitPack ==
  /\ pc = "pk_assign_groups"
  /\ caller = "assign_groups"
  /\ file \in PackFiles \cup {ZeroFile} \cup SmallFiles
  /\ df = file
  /\ MAX_PER_GROUP = 0
  /\ InitLocals

\* the sites of the geocode program's files: site 0 lies on the equator, at
\* the shop and on both sides of it, site 1 north of the shop, the others on
\* the meridian at pairwise different distances
RECURSIVE GeoFar(_)
GeoFar(st) ==
  IF st >= KMEANS_CLUSTERS THEN <<>>
  ELSE <<JobRow(IF st % 2 = 0 THEN 10 * SiteGap * st ELSE -(10 * SiteGap * st), 0, st, 1)>>
       \o GeoFar(st + 1)

GeoFiles ==
  {<<JobRow(0, -a, 0, 1), JobRow(0, 0, 0, 1), JobRow(0, b, 0, 1)>> \o c \o GeoFar(2) \o u :
     a \in {SiteGap \div 5, SiteGap},
     b \in {SiteGap \div 5, SiteGap},
     c \in {<<JobRow(SiteGap - 4, 0, 1, 1)>>,
            <<JobRow(SiteGap + 2, 0, 1, 1)>>,
            <<JobRow(SiteGap + 2, 0, 1, 1), JobRow(SiteGap + 3, 0, 1, 1)>>},
     u \in Ungeocoded}

\* jobsite_sort_geocode.py started on a spreadsheet
InitGeo ==
  /\ pc = "geo_main"
  /\ caller = "geo_main"
  /\ file \in {f \in GeoFiles : LloydStable(f, KMeansBySite(f, [st \in 0..(KMEANS_CLUSTERS - 1) |-> st]))}
             \cup SmallFiles
  /\ df = file
  /\ MAX_PER_GROUP = 0
  /\ InitLocals

Init == InitV3 \/ InitChain \/ InitPack \/ InitGeo

Next ==
  \/ V3MainCli \/ V3MainUi \/ _pick_k_interactive \/ V3Cancel
  \/ V3RunEmpty \/ V3RunCluster
  \/ RebPassCap \/ RebNoOver \/ RebNoUnder \/ RebPassBegin
  \/ RebNextGroup \/ RebEvict \/ RebPassEnd
  \/ _relabel_by_shop \/ V3ZoneSplit \/ V3Return
  \/ PkClusterRaise \/ PkCluster \/ PkBucket \/ PkItem \/ PkBucketEnd \/ PkFinish
  \/ GeoShopRaise \/ GeoShop \/ GeoAssignEmpty \/ GeoAssignRaise
  \/ assign_location_groups \/ GeoReindex \/ GeoZone

Spec == Init /\ [][Next]_vars

(***************************************************************************)
(* Properties                                                              *)
(***************************************************************************)
\* _rebalance_capacity_geo has returned
RebReturned == pc \in {"v3_relabel", "returned"}

\* the number of groups of the partition the rebalancer was given
RebK == IF caller = "direct" THEN ChainK ELSE n_clusters

GroupSize(lg, grp) == Cardinality(Members(lg, grp))

\* C1: whenever MAX * K >= N, the partition the Rebalancer returns has every
\* group's size <= MAX.
C1_CapacityWhenFeasible ==
  (RebReturned /\ MAX_PER_GROUP * RebK >= Len(df))
    => \A grp \in GroupIds(LocationGroup) : GroupSize(LocationGroup, grp) <= MAX_PER_GROUP

\* the rebalancer is running or has returned
InRebalancer == pc \in {"reb_pass", "reb_group", "reb_evict"}

SumSizes(lg) == SumOver(GroupIds(lg), value_counts(lg))

\* assign_groups has returned normally
Packed == pc = "exit" /\ caller = "assign_groups" /\ rc = 0

\* the rows carrying sub-group identifier id
SubGroup(id) == {i \in DOMAIN group_labels : group_labels[i] = id}
SubGroupIds  == {group_labels[i] : i \in DOMAIN group_labels} \ {NoGroup}

\* C2: the Rebalancer and the Bin-Packer never create or destroy points: every
\* row that entered with coordinates has exactly one group, and the group
\* sizes sum to the number of such rows.
C2_Conservation ==
  /\ (InRebalancer \/ RebReturned) =>
       /\ DOMAIN LocationGroup = DOMAIN df
       /\ \A i \in DOMAIN df : LocationGroup[i] # NoGroup
       /\ SumSizes(LocationGroup) = Len(df)
  /\ Packed =>
       /\ DOMAIN group_labels = DOMAIN df
       /\ \A i \in DOMAIN df : df[i].ok => group_labels[i] # NoGroup
       /\ SumSizes(group_labels) = Len(dropna(df))

\* the rebalancer returned after a pass that moved rows
C2_Witness ==
  /\ RebReturned /\ caller = "run_for_k" /\ passes >= 2
  /\ Len(df) >= 3

\* the bin-packer returned, having packed a site with several jobs
C2_WitnessPacked ==
  /\ Packed
  /\ \E id \in SubGroupIds : Cardinality(SubGroup(id)) >= 2

\* what is left of the rebalancer's loops: passes, then the phase of the pass,
\* then the groups still to handle, then the rows the current group still holds
RebMeasure ==
  LET B == Len(df) + 2 IN
  ((PASS_CAP - passes) * 2 + (IF pc = "reb_pass" THEN 0 ELSE 1)) * B * B
    + Cardinality(over) * B
    + (IF pc = "reb_evict" THEN counts[g] ELSE 0)

\* the position inside the rebalancer has a next step: the four cases of
\* "reb_pass" and the two of "reb_group" are exhaustive, and in "reb_evict"
\* there is a row to move
RebCanStep ==
  pc = "reb_evict" =>
    \E idx \in EvictCandidates(df, LocationGroup, g, cents) :
      under = {} \/ NearestUnder(df, idx, under, cents, counts0) # {}

\* C3: for every input, feasible or not, the Rebalancer returns a partition
\* after at most 50 passes and never raises; at the pass bound it returns with
\* groups still over capacity.
\* Termination is stated by a variant: RebMeasure is a natural number that
\* every step inside the rebalancer decreases, and inside the rebalancer a
\* step is always possible (RebCanStep).
C3_TerminatesWithoutError ==
  [][/\ pc' # "reb_raised"
     /\ passes' <= PASS_CAP
     /\ InRebalancer' => (RebMeasure' >= 0 /\ RebCanStep')
     /\ InRebalancer =>
          \/ RebReturned'
          \/ InRebalancer' /\ RebMeasure' < RebMeasure]_vars

\* returned at the pass bound with a group still over capacity
C3_Witness ==
  /\ RebReturned /\ passes = PASS_CAP
  /\ \E grp \in GroupIds(LocationGroup) : GroupSize(LocationGroup, grp) > MAX_PER_GROUP

\* returned from an infeasible input (MAX * K < N) with a group over capacity
C3_WitnessInfeasible ==
  /\ RebReturned /\ caller = "run_for_k"
  /\ MAX_PER_GROUP * n_clusters < Len(df)
  /\ \E grp \in GroupIds(LocationGroup) : GroupSize(LocationGroup, grp) > MAX_PER_GROUP

SumTimes(S) == SumOver(S, [i \in DOMAIN df |-> df[i].Time])

\* C4: every sub-group of the Bin-Packer with more than one member has
\* sum(durations) + (count - 1) * buffer <= budget, and a sub-group of one
\* member exceeds the budget only if its duration alone does.
C4_BudgetRespected ==
  (caller = "assign_groups") =>
    \A id \in SubGroupIds :
      LET S == SubGroup(id) IN
      /\ Cardinality(S) > 1 =>
           SumTimes(S) + (Cardinality(S) - 1) * TRAVEL_BUFFER_PER_JOB <= MAX_HOURS_PER_GROUP
      /\ (Cardinality(S) = 1 /\ SumTimes(S) > MAX_HOURS_PER_GROUP) =>
           \E i \in S : df[i].Time > MAX_HOURS_PER_GROUP

Relabeled ==
  \/ pc \in {"v3_zone", "v3_written"} /\ shop.ok
  \/ pc = "geo_zone"
  \/ pc = "exit" /\ caller = "geo_main" /\ rc = 0

\* C6: after proximity relabelling (both programs), for groups i < j the
\* distance from group i's centroid to the reference location is <= the
\* distance from group j's centroid to it.
C6_RelabelMonotone ==
  Relabeled =>
    LET dist == CentroidDist(df, LocationGroup, shop) IN
    \A i, j \in GroupIds(LocationGroup) : i < j => FLeq(dist[i], dist[j])

\* C7: _relabel_by_shop with a reference is a bijective renaming onto 0..G-1:
\* rows share a group afterwards iff they did before, and no identifier of
\* 0..G-1 is unused.
C7_RelabelBijective ==
  [][(pc = "v3_relabel" /\ shop'.ok) =>
       /\ GroupIds(LocationGroup') = 0..(Cardinality(GroupIds(LocationGroup)) - 1)
       /\ DOMAIN LocationGroup' = DOMAIN LocationGroup
       /\ \A i, j \in DOMAIN LocationGroup :
            (LocationGroup[i] = LocationGroup[j]) <=> (LocationGroup'[i] = LocationGroup'[j])]_vars

\* relabelled three or more groups of unequal distance from the shop
C7_Witness ==
  /\ pc = "v3_zone" /\ shop.ok
  /\ Cardinality(GroupIds(LocationGroup)) >= 3
  /\ LET dist == CentroidDist(df, LocationGroup, shop) IN
     \E i, j \in GroupIds(LocationGroup) : FLt(dist[i], dist[j])

\* ceil(n / 2)
CeilHalf(n) == CHOOSE c \in 0..n : 2 * c >= n /\ 2 * (c - 1) < n

\* the zone split has been made
ZonesMade ==
  \/ pc = "v3_written"
  \/ pc = "exit" /\ caller = "geo_main" /\ rc = 0

\* C8: the zone split uses cutoff = ceil(K / 2): inner is exactly the points
\* with identifier in 0..cutoff-1, outer exactly the remaining points of the
\* partition, and every point is in exactly one zone.
C8_ZoneSplit ==
  ZonesMade =>
    LET K      == Cardinality(GroupIds(LocationGroup))
        points == {i \in DOMAIN LocationGroup : LocationGroup[i] # NoGroup}
    IN  /\ cutoff = CeilHalf(K)
        /\ df_inner = {i \in points : LocationGroup[i] \in 0..(CeilHalf(K) - 1)}
        /\ df_outer = points \ df_inner

\* clamp(x, lo, hi)
Clamp(x, lo, hi) == IF x < lo THEN lo ELSE IF x > hi THEN hi ELSE x

\* rows of the input that have coordinates
Usable == Len(dropna(file))

\* C9: with N >= 1 usable points the group count handed to the Initial
\* Partitioner is clamp(k, 1, N) for the requested k, and the run does not
\* fail because of the requested value.
C9_ClampedRequest ==
  /\ (n_clusters # NoK /\ Usable >= 1) => n_clusters = Clamp(args_k, 1, Usable)
  /\ (ran /\ Usable >= 1) => rc # 1

\* C10: a run on an input with zero usable points ends with a failure its
\* caller can tell from success.
C10_EmptyInputFails ==
  (pc = "exit" /\ ran /\ Usable = 0) => rc # 0

\* C11: when the shop could not be geocoded (shop_lat is None),
\* _relabel_by_shop returns the frame with every row's group identifier
\* unchanged and raises nothing: the run goes on to the zone split.
C11_NoShopPassthrough ==
  [][(pc = "v3_relabel" /\ ~shop'.ok) =>
       /\ LocationGroup' = LocationGroup
       /\ pc' = "v3_zone"
       /\ rc' = rc]_vars

\* passed through without a shop a partition whose identifiers are not in
\* order of distance from any of the shops, so a relabelling would show
C11_Witness ==
  /\ pc = "v3_zone" /\ ~shop.ok
  /\ Cardinality(GroupIds(LocationGroup)) >= 2
  /\ \A s \in Shops :
       LET dist == CentroidDist(df, LocationGroup, s) IN
       \E i, j \in GroupIds(LocationGroup) : i < j /\ FLt(dist[j], dist[i])

\* a step of the rebalancer that moves a row
RebMoves == pc = "reb_evict" /\ LocationGroup' # LocationGroup

\* C12: every row the rebalancer moves goes into a group whose running count
\* before the move is below MAX_PER_GROUP, so no move lifts the receiving
\* group above MAX_PER_GROUP.
C12_MoveIntoUnder ==
  [][RebMoves =>
       \A h \in DOMAIN counts :
         counts'[h] > counts[h] =>
           /\ counts[h] < MAX_PER_GROUP
           /\ counts'[h] <= MAX_PER_GROUP]_vars

\* the last over-capacity group of a pass has been handled
PassDone == pc = "reb_group" /\ over = {} /\ LocationGroup0 # <<>>

\* C13: at the end of every pass that moves rows, each group that was over
\* capacity when the pass began has lost exactly (size - MAX_PER_GROUP) of its
\* members and gained none, so it holds exactly MAX_PER_GROUP rows, and no row
\* it keeps is farther (squared distance) from its pass-start centroid than a
\* row it gave away.
C13_EvictFarthestToMax ==
  PassDone =>
    \A grp \in OverGroups(counts0, MAX_PER_GROUP) :
      LET before  == Members(LocationGroup0, grp)
          after   == Members(LocationGroup, grp)
          evicted == before \ after
      IN  /\ after \subseteq before
          /\ Cardinality(before) = counts0[grp]
          /\ Cardinality(evicted) = counts0[grp] - MAX_PER_GROUP
          /\ Cardinality(after) = MAX_PER_GROUP
          /\ \A r \in after : \A e \in evicted :
               D2Num(df, r, cents[grp]) <= D2Num(df, e, cents[grp])

\* a pass ended in which a group gave away a row and kept a nearer one
C13_Witness ==
  /\ PassDone
  /\ \E grp \in OverGroups(counts0, MAX_PER_GROUP) :
       \E r \in Members(LocationGroup, grp) :
         \E e \in Members(LocationGroup0, grp) \ Members(LocationGroup, grp) :
           D2Num(df, r, cents[grp]) < D2Num(df, e, cents[grp])

\* an iteration of "for _ in range(50)" is about to begin
AtPassStart == pc = "reb_pass" /\ passes < PASS_CAP

\* C14: when a pass begins with no group over capacity, or with a group over
\* capacity and no group below it, the rebalancer returns in that pass: the
\* frame it returns has the labels the pass began with, and no further pass
\* is entered.
C14_EarlyStop ==
  [][(/\ AtPassStart
      /\ \/ OverGroups(value_counts(LocationGroup), MAX_PER_GROUP) = {}
         \/ UnderGroups(value_counts(LocationGroup), MAX_PER_GROUP) = {}) =>
       /\ RebReturned'
       /\ LocationGroup' = LocationGroup
       /\ passes' = passes + 1]_vars

\* stopped in the second pass, after a pass that moved rows, with the rest of
\* the 50 passes not run
C14_Witness ==
  /\ RebReturned /\ passes = 2 /\ caller = "run_for_k"
  /\ \A grp \in GroupIds(LocationGroup) : GroupSize(LocationGroup, grp) <= MAX_PER_GROUP

\* stopped in the first pass with a group over capacity and none below it
C14_WitnessNoUnder ==
  /\ RebReturned /\ passes = 1
  /\ \E grp \in GroupIds(LocationGroup) : GroupSize(LocationGroup, grp) > MAX_PER_GROUP
  /\ \A grp \in GroupIds(LocationGroup) : GroupSize(LocationGroup, grp) >= MAX_PER_GROUP

\* C15: when assign_groups has returned, every integer from 1 up to the
\* largest sub-group identifier it issued is the identifier of some row (also
\* when the first job of a bucket alone exceeds the budget), and the rows of
\* one sub-group all lie in one spatial bucket.
C15_DenseSubGroupIds ==
  Packed =>
    /\ \A id \in SubGroupIds : id >= 1
    /\ \A id \in SubGroupIds : \A below \in 1..id : SubGroup(below) # {}
    /\ \A i, j \in DOMAIN group_labels :
         (group_labels[i] # NoGroup /\ group_labels[i] = group_labels[j]) =>
           LocationGroup[i] = LocationGroup[j]

====
